---- MODULE Spec2Model ----
(***************************************************************************)
(* Realtime notification service: the Socket.IO namespace handlers of      *)
(* src/src/app.js (connect, subscribe, subscribeCount, disconnecting) and  *)
(* the notification fan-out of NotificationService/NotificationController. *)
(*                                                                         *)
(* Representation.  A room key, a client/device identity and a socket id   *)
(* are JavaScript strings; they are modelled as sequences of one-character *)
(* strings, so that String.includes and string concatenation are computed. *)
(* A payload is a JavaScript object, modelled as a function from field     *)
(* names to values ("type" is a TLA+ string, "topic" is a key, an event   *)
(* name is a string of characters like a key,                              *)
(* "count", "a" and "timestamp" are integers).  An appId is a string of   *)
(* characters too, and names the namespace "/" + appId.                    *)
(***************************************************************************)
EXTENDS Integers, Sequences, FiniteSets, TLC

\* ------------------------------------------------------------------------
\* Bounds
\* ------------------------------------------------------------------------
NumConns == 3
NumNotifyConns == 2

Conns == 1 .. NumConns

\* ------------------------------------------------------------------------
\* Strings
\* ------------------------------------------------------------------------
Digits == <<"1", "2", "3", "4", "5", "6", "7", "8", "9">>

\* socket.id of connection c (an opaque identifier without ':').
SocketId(c) == <<"s", Digits[c]>>

\* haystack.includes(needle)
Includes(haystack, needle) ==
    \E i \in 1 .. (Len(haystack) - Len(needle) + 1) :
        SubSeq(haystack, i, i + Len(needle) - 1) = needle

ColonStr == <<":">>
CountStr == <<"c", "o", "u", "n", "t">>

\* topic + ":count"
CountKey(topic) == topic \o ColonStr \o CountStr

\* the default event name, "dataUpdate"
DataUpdate == <<"d", "a", "t", "a", "U", "p", "d", "a", "t", "e">>

\* A header that is absent (undefined) or empty: falsy in `if (clientId)`.
NoId == <<>>

\* Keys used by the scenarios.
KeyU1 == <<"u", "1">>
KeyU2 == <<"u", "2">>
KeyD1 == <<"d", "1">>
KeyUC == <<"u", ":", "1">>
KeyAB == <<"a", ":", "b">>
KeyCD == <<"c", ":", "d">>
KeyPlain == <<"a", "b">>
KeyMyCount == <<"m", "y", "c", "o", "u", "n", "t", ":", "e">>

\* The number 42, a value that is not a string: a sequence whose one
\* element is no character.  As a room key it is a key like any other
\* (the rooms Map takes any value as key).
Number42 == <<"number 42">>

\* application ids; the namespace of appId is "/" + appId
AppA == <<"A">>
AppB == <<"B">>
Apps == {AppA, AppB}

\* the namespace of a socket that is in no namespace
NoNsp == <<>>

\* ------------------------------------------------------------------------
\* State
\* ------------------------------------------------------------------------
VARIABLES
    status,     \* status[c]: "none" (not yet connected), "active", "closed"
    nspOf,      \* nspOf[c]: the namespace (appId) whose sockets map holds c
    handshake,  \* handshake[c]: the x-client-id / x-device-id headers of c
    rooms,      \* rooms[a]: namespace.adapter.rooms of app a, key -> members
    sids,       \* sids[c]: socket.rooms of c, in insertion order
    lastOp,     \* the operation executed by the last step, with its input
    emits,      \* the emits performed by the last step, in order
    response,   \* the HTTP response of the last step (NoResponse if none)
    svc,        \* the service's working values of the last notify request
    raised,     \* the exception that escaped the handler of the last step
    asked       \* asked[c]: the topics c has named in subscribeCount events

vars ==
    <<status, nspOf, handshake, rooms, sids, lastOp, emits, response, svc,
      raised, asked>>

\* no exception escaped the handler
NoError == "none"

NoResponse == [status |-> 0]
NoSvc == [ran |-> FALSE]
NoHandshake == [clientId |-> NoId, deviceId |-> NoId]

\* ------------------------------------------------------------------------
\* The adapter: rooms is a Map from key to Set of socket, sids the reverse
\* ------------------------------------------------------------------------
\* rooms.get(key) is defined
RoomsHas(rs, key) == key \in DOMAIN rs

\* rooms.get(key).size, for a key the Map holds
RoomSize(rs, key) == Cardinality(rs[key])

\* a broadcast that reaches every socket of the namespace
MembersEveryone(rs, key) == UNION {rs[k] : k \in DOMAIN rs}

\* the sockets a broadcast to `key` reaches: the members of the room, none
\* when the Map has no such room
Members(rs, key) == IF RoomsHas(rs, key) THEN rs[key] ELSE {}

SeqHas(s, x) == \E i \in 1 .. Len(s) : s[i] = x

\* the elements of a sequence
Range(s) == {s[i] : i \in 1 .. Len(s)}

\* socket.join(key), on the rooms Map of the socket's namespace
JoinRoomsWrong(rs, c, key) ==
    [k \in DOMAIN rs \cup {key} |-> IF k = key THEN {c} ELSE rs[k]]

JoinRooms(rs, c, key) ==
    [k \in DOMAIN rs \cup {key} |->
        IF k = key THEN Members(rs, key) \cup {c} ELSE rs[k]]

\* a socket.rooms that lists a key once per join
JoinSidsAlways(sd, key) == Append(sd, key)

\* socket.join(key), on socket.rooms (a Set: no duplicate, insertion order)
JoinSids(sd, key) == IF SeqHas(sd, key) THEN sd ELSE Append(sd, key)

\* a removal that takes the socket out of the rooms with ":" in their key
\* only
LeaveAllCountable(rs, c) ==
    LET Left(k) == IF Includes(k, ColonStr) THEN rs[k] \ {c} ELSE rs[k]
        kept == {k \in DOMAIN rs : Left(k) # {}}
    IN  [k \in kept |-> Left(k)]

\* the adapter's removal of socket c from every room; a room left empty is
\* deleted from the Map
LeaveAll(rs, c) ==
    LET kept == {k \in DOMAIN rs : rs[k] \ {c} # {}}
    IN  [k \in kept |-> rs[k] \ {c}]

\* namespace.in(room).emit(event, payload)
EmitAllNamespaces(a, rs, room, event, payload) ==
    [nsp |-> a, room |-> room, event |-> event, payload |-> payload,
     to |-> UNION {Members(rooms[b], room) : b \in Apps}]

\* a broadcast to a room that also reaches the room's count room
EmitWithCountRoom(a, rs, room, event, payload) ==
    [nsp |-> a, room |-> room, event |-> event, payload |-> payload,
     to |-> Members(rs, room) \cup Members(rs, CountKey(room))]

\* a broadcast that is also kept for the connections still to come
EmitAlsoLateJoiners(a, rs, room, event, payload) ==
    [nsp |-> a, room |-> room, event |-> event, payload |-> payload,
     to |-> Members(rs, room) \cup {c \in Conns : status[c] = "none"}]

Emit(a, rs, room, event, payload) ==
    [nsp |-> a, room |-> room, event |-> event, payload |-> payload,
     to |-> Members(rs, room)]

CountPayload(topic, n) == [type |-> "count", topic |-> topic, count |-> n]

\* ------------------------------------------------------------------------
\* Socket handlers (src/src/app.js)
\* ------------------------------------------------------------------------
Init ==
    /\ status = [c \in Conns |-> "none"]
    /\ nspOf = [c \in Conns |-> NoNsp]
    /\ handshake = [c \in Conns |-> NoHandshake]
    /\ rooms = [a \in Apps |-> <<>>]
    /\ sids = [c \in Conns |-> <<>>]
    /\ lastOp = [kind |-> "init", conn |-> 0, arg |-> [none |-> TRUE]]
    /\ emits = <<>>
    /\ response = NoResponse
    /\ svc = NoSvc
    /\ raised = NoError
    /\ asked = [c \in Conns |-> {}]

\* a connection that joins the room of its clientId only
ConnectRoomsClientOnly(rs, c, hs) ==
    LET r0 == JoinRooms(rs, c, SocketId(c))
    IN  IF hs.clientId # NoId THEN JoinRooms(r0, c, hs.clientId) ELSE r0

\* A connection to namespace /app: the socket enters the namespace and its
\* own socket.id room, then joins its clientId room and its deviceId room.
ConnectRooms(rs, c, hs) ==
    LET r0 == JoinRooms(rs, c, SocketId(c))
        r1 == IF hs.clientId # NoId THEN JoinRooms(r0, c, hs.clientId) ELSE r0
    IN  IF hs.deviceId # NoId THEN JoinRooms(r1, c, hs.deviceId) ELSE r1

ConnectSids(c, hs) ==
    LET s0 == <<SocketId(c)>>
        s1 == IF hs.clientId # NoId THEN JoinSids(s0, hs.clientId) ELSE s0
    IN  IF hs.deviceId # NoId THEN JoinSids(s1, hs.deviceId) ELSE s1

Connect(c, app, hs) ==
    /\ status[c] = "none"
    /\ status' = [status EXCEPT ![c] = "active"]
    /\ nspOf' = [nspOf EXCEPT ![c] = app]
    /\ handshake' = [handshake EXCEPT ![c] = hs]
    /\ rooms' = [rooms EXCEPT ![app] = ConnectRooms(rooms[app], c, hs)]
    /\ sids' = [sids EXCEPT ![c] = ConnectSids(c, hs)]
    /\ lastOp' = [kind |-> "connect", conn |-> c,
                  arg |-> [app |-> app, hs |-> hs]]
    /\ emits' = <<>>
    /\ response' = NoResponse
    /\ svc' = NoSvc
    /\ raised' = NoError
    /\ asked' = asked

\* The on-join count update of one topic, computed after the join.
OnJoinEmitsUnguarded(a, rs, topic) ==
    IF RoomsHas(rs, topic) /\ RoomSize(rs, topic) > 0
    THEN <<Emit(a, rs, CountKey(topic), DataUpdate,
                CountPayload(topic, RoomSize(rs, topic)))>>
    ELSE <<>>

OnJoinEmitsStale(a, rs, topic) ==
    IF RoomsHas(rs, topic) /\ RoomSize(rs, topic) > 0
    THEN IF RoomsHas(rs, CountKey(topic)) /\ RoomSize(rs, CountKey(topic)) > 0
         THEN <<Emit(a, rs, CountKey(topic), DataUpdate,
                     CountPayload(topic, RoomSize(rs, topic) - 1))>>
         ELSE <<>>
    ELSE <<>>

OnJoinEmits(a, rs, topic) ==
    IF RoomsHas(rs, topic) /\ RoomSize(rs, topic) > 0
    THEN IF RoomsHas(rs, CountKey(topic)) /\ RoomSize(rs, CountKey(topic)) > 0
         THEN <<Emit(a, rs, CountKey(topic), DataUpdate,
                     CountPayload(topic, RoomSize(rs, topic)))>>
         ELSE <<>>
    ELSE <<>>

\* a subscribe handler that walks eventTopics from its last item to its first
RECURSIVE SubscribeEachReversed(_, _, _, _, _)
SubscribeEachReversed(a, c, topics, i, st) ==
    IF i > Len(topics) THEN st
    ELSE LET t == topics[Len(topics) + 1 - i]
             rs1 == JoinRooms(st.rooms, c, t)
             sd1 == JoinSids(st.sids, t)
         IN  SubscribeEachReversed(a, c, topics, i + 1,
                 [rooms |-> rs1, sids |-> sd1,
                  emits |-> st.emits \o OnJoinEmits(a, rs1, t)])

\* a subscribe handler that announces a count only for a room newly joined
RECURSIVE SubscribeEachNewOnly(_, _, _, _, _)
SubscribeEachNewOnly(a, c, topics, i, st) ==
    IF i > Len(topics) THEN st
    ELSE LET rs1 == JoinRooms(st.rooms, c, topics[i])
             sd1 == JoinSids(st.sids, topics[i])
         IN  SubscribeEachNewOnly(a, c, topics, i + 1,
                 [rooms |-> rs1, sids |-> sd1,
                  emits |-> IF SeqHas(st.sids, topics[i]) THEN st.emits
                            ELSE st.emits \o OnJoinEmits(a, rs1, topics[i])])

\* eventTopics.forEach of the subscribe handler, from index i on; st holds
\* the rooms Map of the namespace, socket.rooms and the emits so far.
RECURSIVE SubscribeEach(_, _, _, _, _)
SubscribeEach(a, c, topics, i, st) ==
    IF i > Len(topics) THEN st
    ELSE LET rs1 == JoinRooms(st.rooms, c, topics[i])
             sd1 == JoinSids(st.sids, topics[i])
         IN  SubscribeEach(a, c, topics, i + 1,
                 [rooms |-> rs1, sids |-> sd1,
                  emits |-> st.emits \o OnJoinEmits(a, rs1, topics[i])])

\* a subscribe handler that takes a single string for a list of one topic
SubscribeCoerce(c, arg) ==
    /\ status[c] = "active"
    /\ LET a == nspOf[c]
           st == SubscribeEach(a, c, arg.items, 1,
                     [rooms |-> rooms[a], sids |-> sids[c], emits |-> <<>>])
       IN  /\ rooms' = [rooms EXCEPT ![a] = st.rooms]
           /\ sids' = [sids EXCEPT ![c] = st.sids]
           /\ emits' = st.emits
    /\ lastOp' = [kind |-> "subscribe", conn |-> c, arg |-> arg]
    /\ response' = NoResponse
    /\ svc' = NoSvc
    /\ raised' = NoError
    /\ asked' = asked
    /\ UNCHANGED <<status, nspOf, handshake>>

\* socket.on("subscribe"): arg.isArray is Array.isArray(eventTopics).
Subscribe(c, arg) ==
    /\ status[c] = "active"
    /\ LET a == nspOf[c]
           st == IF arg.isArray
                 THEN SubscribeEach(a, c, arg.items, 1,
                          [rooms |-> rooms[a], sids |-> sids[c],
                           emits |-> <<>>])
                 ELSE [rooms |-> rooms[a], sids |-> sids[c], emits |-> <<>>]
       IN  /\ rooms' = [rooms EXCEPT ![a] = st.rooms]
           /\ sids' = [sids EXCEPT ![c] = st.sids]
           /\ emits' = st.emits
    /\ lastOp' = [kind |-> "subscribe", conn |-> c, arg |-> arg]
    /\ response' = NoResponse
    /\ svc' = NoSvc
    /\ raised' = NoError
    /\ asked' = asked
    /\ UNCHANGED <<status, nspOf, handshake>>

\* a subscribeCount that also joins the topic room itself
RECURSIVE SubscribeCountEachAlsoTopic(_, _, _, _)
SubscribeCountEachAlsoTopic(c, topics, i, st) ==
    IF i > Len(topics) THEN st
    ELSE LET rs1 == JoinRooms(st.rooms, c, topics[i])
             sd1 == JoinSids(st.sids, topics[i])
         IN  SubscribeCountEachAlsoTopic(c, topics, i + 1,
                 [rooms |-> JoinRooms(rs1, c, CountKey(topics[i])),
                  sids |-> JoinSids(sd1, CountKey(topics[i]))])

\* eventTopics.forEach of the subscribeCount handler.
RECURSIVE SubscribeCountEach(_, _, _, _)
SubscribeCountEach(c, topics, i, st) ==
    IF i > Len(topics) THEN st
    ELSE SubscribeCountEach(c, topics, i + 1,
             [rooms |-> JoinRooms(st.rooms, c, CountKey(topics[i])),
              sids |-> JoinSids(st.sids, CountKey(topics[i]))])

\* socket.on("subscribeCount"): the handler calls eventTopics.forEach
\* without a check, which throws a TypeError for an argument that is not an
\* array (a string, a number, an object, null have no forEach).
SubscribeCount(c, arg) ==
    /\ status[c] = "active"
    /\ IF arg.isArray
       THEN LET a == nspOf[c]
                st == SubscribeCountEach(c, arg.items, 1,
                          [rooms |-> rooms[a], sids |-> sids[c]])
            IN  /\ rooms' = [rooms EXCEPT ![a] = st.rooms]
                /\ sids' = [sids EXCEPT ![c] = st.sids]
                /\ asked' = [asked EXCEPT ![c] = @ \cup Range(arg.items)]
                /\ raised' = NoError
       ELSE /\ UNCHANGED <<rooms, sids, asked>>
            /\ raised' = "TypeError"
    /\ lastOp' = [kind |-> "subscribeCount", conn |-> c, arg |-> arg]
    /\ emits' = <<>>
    /\ response' = NoResponse
    /\ svc' = NoSvc
    /\ UNCHANGED <<status, nspOf, handshake>>

\* The body of socket.rooms.forEach in the disconnecting handler, for one
\* room; the socket is still a member of all its rooms.
OnLeaveEmitsLast(a, c, rs, room) ==
    IF /\ room # SocketId(c)
       /\ Includes(room, ColonStr)
       /\ ~Includes(room, CountStr)
       /\ RoomsHas(rs, room)
       /\ RoomSize(rs, room) > 0
    THEN <<Emit(a, rs, CountKey(room), DataUpdate,
                CountPayload(room, RoomSize(rs, room) - 1))>>
    ELSE <<>>

\* a leave update for every room but the socket's own, whatever its key
OnLeaveEmitsAnyKey(a, c, rs, room) ==
    IF /\ room # SocketId(c)
       /\ RoomsHas(rs, room)
       /\ RoomSize(rs, room) > 1
    THEN <<Emit(a, rs, CountKey(room), DataUpdate,
                CountPayload(room, RoomSize(rs, room) - 1))>>
    ELSE <<>>

\* a leave update emitted only while more than two members are in the room
OnLeaveEmitsAboveTwo(a, c, rs, room) ==
    IF /\ room # SocketId(c)
       /\ Includes(room, ColonStr)
       /\ ~Includes(room, CountStr)
       /\ RoomsHas(rs, room)
       /\ RoomSize(rs, room) > 2
    THEN <<Emit(a, rs, CountKey(room), DataUpdate,
                CountPayload(room, RoomSize(rs, room) - 1))>>
    ELSE <<>>

\* a leave update that carries the size of the room before the socket left
OnLeaveEmitsBefore(a, c, rs, room) ==
    IF /\ room # SocketId(c)
       /\ Includes(room, ColonStr)
       /\ ~Includes(room, CountStr)
       /\ RoomsHas(rs, room)
       /\ RoomSize(rs, room) > 1
    THEN <<Emit(a, rs, CountKey(room), DataUpdate,
                CountPayload(room, RoomSize(rs, room)))>>
    ELSE <<>>

OnLeaveEmits(a, c, rs, room) ==
    IF /\ room # SocketId(c)
       /\ Includes(room, ColonStr)
       /\ ~Includes(room, CountStr)
       /\ RoomsHas(rs, room)
       /\ RoomSize(rs, room) > 1
    THEN <<Emit(a, rs, CountKey(room), DataUpdate,
                CountPayload(room, RoomSize(rs, room) - 1))>>
    ELSE <<>>

RECURSIVE DisconnectingEach(_, _, _, _, _)
DisconnectingEach(a, c, rs, sd, i) ==
    IF i > Len(sd) THEN <<>>
    ELSE OnLeaveEmits(a, c, rs, sd[i]) \o DisconnectingEach(a, c, rs, sd, i + 1)

\* A disconnect: the "disconnecting" handler runs while the socket is still
\* in its rooms, then the socket leaves every room and the namespace.
Disconnect(c) ==
    /\ status[c] = "active"
    /\ LET a == nspOf[c]
       IN  /\ emits' = DisconnectingEach(a, c, rooms[a], sids[c], 1)
           /\ rooms' = [rooms EXCEPT ![a] = LeaveAll(rooms[a], c)]
    /\ sids' = [sids EXCEPT ![c] = <<>>]
    /\ status' = [status EXCEPT ![c] = "closed"]
    /\ nspOf' = [nspOf EXCEPT ![c] = NoNsp]
    /\ handshake' = [handshake EXCEPT ![c] = NoHandshake]
    /\ lastOp' = [kind |-> "disconnect", conn |-> c,
                  arg |-> [app |-> nspOf[c], left |-> sids[c]]]
    /\ response' = NoResponse
    /\ svc' = NoSvc
    /\ raised' = NoError
    /\ asked' = [asked EXCEPT ![c] = {}]

\* ------------------------------------------------------------------------
\* NotificationService and NotificationController
\* ------------------------------------------------------------------------
\* A request body is a function from the property names it has to their
\* values; an object is a function from its keys to their values.
Has(obj, f) == f \in DOMAIN obj

EmptyObject == <<>>

\* { ...obj, [f]: v }
WithField(obj, f, v) == [k \in DOMAIN obj \cup {f} |-> IF k = f THEN v ELSE obj[k]]

\* JavaScript truthiness of a "type" value (a string) and of a "timestamp"
\* value (a number)
TruthyType(v) == v # ""
TruthyTimestamp(v) == v # 0

\* the destructuring defaults of sendNotification
EventNameOf(req) == IF Has(req, "eventName") THEN req.eventName ELSE DataUpdate
DataOf(req) == IF Has(req, "data") THEN req.data ELSE EmptyObject

\* list && Array.isArray(list) && list.length > 0
HasTargets(req, f) == Has(req, f) /\ Len(req[f]) > 0

\* list?.length || 0
TargetCount(req, f) == IF Has(req, f) THEN Len(req[f]) ELSE 0

TargetsOf(req, f) == IF Has(req, f) THEN req[f] ELSE <<>>

\* _validateTargets: TRUE when it returns, FALSE when it throws
ValidateTargetsPresent(req) ==
    Has(req, "users") \/ Has(req, "devices") \/ Has(req, "eventTopics")

ValidateTargets(req) ==
    HasTargets(req, "users") \/ HasTargets(req, "devices") \/ HasTargets(req, "eventTopics")

NoTargetMessage == "At least one of 'users', 'devices', or 'eventTopics' must be provided"

\* _prepareNotificationData, with `now` the value of Date.now()
PrepareNotificationDataAlways(data, now) ==
    WithField(WithField(data, "type", "httpRequest"), "timestamp", now)

PrepareNotificationData(data, now) ==
    LET d1 == IF Has(data, "type") /\ TruthyType(data.type) THEN data
              ELSE WithField(data, "type", "httpRequest")
    IN  IF Has(d1, "timestamp") /\ TruthyTimestamp(d1.timestamp) THEN d1
        ELSE WithField(d1, "timestamp", now)

\* the payload object handed to emit for one target, and the base payload
\* object afterwards: users and devices get the base payload itself, a topic
\* gets the copy { ...data, topic }
TargetPayloadShared(cat, base, key) ==
    IF cat = "eventTopics"
    THEN [payload |-> WithField(base, "topic", key),
          base |-> WithField(base, "topic", key)]
    ELSE [payload |-> base, base |-> base]

TargetPayloadTagAll(cat, base, key) ==
    [payload |-> WithField(base, "topic", key), base |-> base]

TargetPayload(cat, base, key) ==
    IF cat = "eventTopics"
    THEN [payload |-> WithField(base, "topic", key), base |-> base]
    ELSE [payload |-> base, base |-> base]

\* The map over the targets of one category (_sendToUsers, _sendToDevices,
\* _sendToTopics), from index i on.  failing is the set of <<category,
\* index>> positions whose emit throws; st holds the emits performed, the
\* settled results and the base payload object.
RECURSIVE SendEachFailFast(_, _, _, _, _, _, _, _)
SendEachFailFast(a, rs, cat, keys, i, eventName, failing, st) ==
    IF i > Len(keys) \/ (\E j \in 1 .. Len(st.results) : ~st.results[j].success)
    THEN st
    ELSE LET tp == TargetPayload(cat, st.base, keys[i])
         IN  IF <<cat, i>> \in failing
             THEN [st EXCEPT !.base = tp.base,
                      !.results = Append(@, [target |-> keys[i], success |-> FALSE])]
             ELSE SendEachFailFast(a, rs, cat, keys, i + 1, eventName, failing,
                     [st EXCEPT !.base = tp.base,
                         !.emits = Append(@, Emit(a, rs, keys[i], eventName, tp.payload)),
                         !.results = Append(@, [target |-> keys[i], success |-> TRUE])])

\* a send loop that emits once per distinct room key of the request
RECURSIVE SendEachOnce(_, _, _, _, _, _, _, _)
SendEachOnce(a, rs, cat, keys, i, eventName, failing, st) ==
    IF i > Len(keys) THEN st
    ELSE LET tp == TargetPayload(cat, st.base, keys[i])
             done == \E j \in 1 .. Len(st.emits) : st.emits[j].room = keys[i]
         IN  IF <<cat, i>> \in failing
             THEN SendEachOnce(a, rs, cat, keys, i + 1, eventName, failing,
                     [st EXCEPT !.base = tp.base,
                         !.results = Append(@, [target |-> keys[i], success |-> FALSE])])
             ELSE SendEachOnce(a, rs, cat, keys, i + 1, eventName, failing,
                     [st EXCEPT !.base = tp.base,
                         !.emits = IF done THEN @
                                   ELSE Append(@, Emit(a, rs, keys[i], eventName, tp.payload)),
                         !.results = Append(@, [target |-> keys[i], success |-> TRUE])])

RECURSIVE SendEach(_, _, _, _, _, _, _, _)
SendEach(a, rs, cat, keys, i, eventName, failing, st) ==
    IF i > Len(keys) THEN st
    ELSE LET tp == TargetPayload(cat, st.base, keys[i])
         IN  IF <<cat, i>> \in failing
             THEN SendEach(a, rs, cat, keys, i + 1, eventName, failing,
                     [st EXCEPT !.base = tp.base,
                         !.results = Append(@, [target |-> keys[i], success |-> FALSE])])
             ELSE SendEach(a, rs, cat, keys, i + 1, eventName, failing,
                     [st EXCEPT !.base = tp.base,
                         !.emits = Append(@, Emit(a, rs, keys[i], eventName, tp.payload)),
                         !.results = Append(@, [target |-> keys[i], success |-> TRUE])])

SendToUsers(a, rs, users, eventName, failing, st) ==
    SendEach(a, rs, "users", users, 1, eventName, failing, st)

SendToDevices(a, rs, devices, eventName, failing, st) ==
    SendEach(a, rs, "devices", devices, 1, eventName, failing, st)

SendToTopics(a, rs, eventTopics, eventName, failing, st) ==
    SendEach(a, rs, "eventTopics", eventTopics, 1, eventName, failing, st)

\* The fan-out of sendNotification once the targets are validated: the
\* three tasks are started in this order and each performs all its emits
\* when it is started, before Promise.allSettled is awaited.
FanOutFirstApp(req, payload, failing) ==
    LET a == AppA
        rs == rooms[a]
        ev == EventNameOf(req)
        s0 == [emits |-> <<>>, results |-> <<>>, base |-> payload]
        s1 == IF HasTargets(req, "users")
              THEN SendToUsers(a, rs, req.users, ev, failing, s0) ELSE s0
        s2 == IF HasTargets(req, "devices")
              THEN SendToDevices(a, rs, req.devices, ev, failing, s1) ELSE s1
    IN  IF HasTargets(req, "eventTopics")
        THEN SendToTopics(a, rs, req.eventTopics, ev, failing, s2) ELSE s2

\* a fan-out that gives up the remaining categories once a send has failed
FanOutAbortOnFailure(req, payload, failing) ==
    LET a == req.appId
        rs == rooms[a]
        ev == EventNameOf(req)
        Failed(st) == \E j \in 1 .. Len(st.results) : ~st.results[j].success
        s0 == [emits |-> <<>>, results |-> <<>>, base |-> payload]
        s1 == IF HasTargets(req, "users")
              THEN SendToUsers(a, rs, req.users, ev, failing, s0) ELSE s0
        s2 == IF HasTargets(req, "devices") /\ ~Failed(s1)
              THEN SendToDevices(a, rs, req.devices, ev, failing, s1) ELSE s1
    IN  IF HasTargets(req, "eventTopics") /\ ~Failed(s2)
        THEN SendToTopics(a, rs, req.eventTopics, ev, failing, s2) ELSE s2

FanOut(req, payload, failing) ==
    LET a == req.appId
        rs == rooms[a]
        ev == EventNameOf(req)
        s0 == [emits |-> <<>>, results |-> <<>>, base |-> payload]
        s1 == IF HasTargets(req, "users")
              THEN SendToUsers(a, rs, req.users, ev, failing, s0) ELSE s0
        s2 == IF HasTargets(req, "devices")
              THEN SendToDevices(a, rs, req.devices, ev, failing, s1) ELSE s1
    IN  IF HasTargets(req, "eventTopics")
        THEN SendToTopics(a, rs, req.eventTopics, ev, failing, s2) ELSE s2

\* a result that counts only the targets whose room has members
SuccessResultNonEmpty(req) ==
    LET Reached(f) ==
            Cardinality({i \in 1 .. TargetCount(req, f) :
                            Members(rooms[req.appId], req[f][i]) # {}})
    IN  [success |-> TRUE,
         message |-> "Notification sent successfully",
         stats |-> [userTargets |-> Reached("users"),
                    deviceTargets |-> Reached("devices"),
                    topicTargets |-> Reached("eventTopics")]]

\* the value sendNotification resolves with
SuccessResult(req) ==
    [success |-> TRUE,
     message |-> "Notification sent successfully",
     stats |-> [userTargets |-> TargetCount(req, "users"),
                deviceTargets |-> TargetCount(req, "devices"),
                topicTargets |-> TargetCount(req, "eventTopics")]]

\* the positions <<category, index>> of the targets of a request
TargetPositions(req) ==
    UNION {{<<f, i>> : i \in 1 .. TargetCount(req, f)} :
              f \in {"users", "devices", "eventTopics"}}

\* An unexpected exception inside sendNotification, an input of the
\* environment: none, or an Error with a message thrown where the namespace
\* is resolved (before any emit) or where the statistics are logged (after
\* all emits).
NoCrash == [at |-> "none"]

NoValue == [none |-> TRUE]

\* NotificationService.sendNotification: what it throws or resolves with,
\* the emits it performed and its working values.  statusCode 0 stands for
\* an Error without statusCode.
SendNotification(req, now, failing, crash) ==
    IF ~ValidateTargets(req)
    THEN [threw |-> TRUE, statusCode |-> 400, message |-> NoTargetMessage,
          value |-> NoValue, emits |-> <<>>, svc |-> NoSvc]
    ELSE LET payload == PrepareNotificationData(DataOf(req), now)
         IN  IF crash.at = "namespace"
             THEN [threw |-> TRUE, statusCode |-> 0, message |-> crash.message,
                   value |-> NoValue, emits |-> <<>>, svc |-> NoSvc]
             ELSE LET out == FanOut(req, payload, failing)
                      work == [ran |-> TRUE, prepared |-> payload,
                               base |-> out.base, results |-> out.results]
                  IN  IF crash.at = "stats"
                      THEN [threw |-> TRUE, statusCode |-> 0,
                            message |-> crash.message, value |-> NoValue,
                            emits |-> out.emits, svc |-> work]
                      ELSE [threw |-> FALSE, statusCode |-> 0, message |-> "",
                            value |-> SuccessResult(req),
                            emits |-> out.emits, svc |-> work]

\* the catch block of NotificationController.sendNotification
ErrorResponse(out) ==
    [status |-> IF out.statusCode # 0 THEN out.statusCode ELSE 500,
     body |-> [success |-> FALSE,
               error |-> IF out.message # "" THEN out.message
                         ELSE "Internal server error"]]

\* a router that creates the room of every target it emits to
NotifyCreatesRooms(req, now, failing, crash) ==
    /\ LET out == SendNotification(req, now, failing, crash)
       IN  /\ emits' = out.emits
           /\ svc' = out.svc
           /\ raised' = NoError
           /\ asked' = asked
           /\ response' = IF out.threw THEN ErrorResponse(out)
                          ELSE [status |-> 200, body |-> out.value]
    /\ lastOp' = [kind |-> "notify", conn |-> 0,
                  arg |-> [req |-> req, failing |-> failing, now |-> now,
                           crash |-> crash]]
    /\ rooms' = [rooms EXCEPT ![req.appId] =
                    [k \in DOMAIN @ \cup Range(TargetsOf(req, "users"))
                                    \cup Range(TargetsOf(req, "devices"))
                                    \cup Range(TargetsOf(req, "eventTopics")) |->
                        Members(@, k)]]
    /\ UNCHANGED <<status, nspOf, handshake, sids>>

\* NotificationController.sendNotification on a body that passed the
\* schema: the service validates the targets, prepares the payload, fans
\* out and resolves; an error thrown by the service becomes the response.
Notify(req, now, failing, crash) ==
    /\ LET out == SendNotification(req, now, failing, crash)
       IN  /\ emits' = out.emits
           /\ svc' = out.svc
           /\ raised' = NoError
           /\ asked' = asked
           /\ response' = IF out.threw THEN ErrorResponse(out)
                          ELSE [status |-> 200, body |-> out.value]
    /\ lastOp' = [kind |-> "notify", conn |-> 0,
                  arg |-> [req |-> req, failing |-> failing, now |-> now,
                           crash |-> crash]]
    /\ UNCHANGED <<status, nspOf, handshake, rooms, sids>>

\* NotificationService.sendBatchNotifications, requests i .. Len(reqs): one
\* sendNotification after the other, a thrown error caught per request and
\* turned into a failure entry.
RECURSIVE SendBatchStopAtFailure(_, _, _, _, _)
SendBatchStopAtFailure(reqs, now, failings, i, st) ==
    IF i > Len(reqs) THEN st
    ELSE LET out == SendNotification(reqs[i], now, failings[i], NoCrash)
         IN  IF out.threw
             THEN [emits |-> st.emits \o out.emits,
                   results |-> Append(st.results,
                                      [success |-> FALSE, appId |-> reqs[i].appId,
                                       error |-> out.message])]
             ELSE SendBatchStopAtFailure(reqs, now, failings, i + 1,
                      [emits |-> st.emits \o out.emits,
                       results |-> Append(st.results,
                                          WithField(out.value, "appId", reqs[i].appId))])

RECURSIVE SendBatchEach(_, _, _, _, _)
SendBatchEach(reqs, now, failings, i, st) ==
    IF i > Len(reqs) THEN st
    ELSE LET out == SendNotification(reqs[i], now, failings[i], NoCrash)
             entry == IF out.threw
                      THEN [success |-> FALSE, appId |-> reqs[i].appId,
                            error |-> out.message]
                      ELSE WithField(out.value, "appId", reqs[i].appId)
         IN  SendBatchEach(reqs, now, failings, i + 1,
                           [emits |-> st.emits \o out.emits,
                            results |-> Append(st.results, entry)])

\* the value sendBatchNotifications resolves with, and the emits it made
SendBatchNotifications(reqs, now, failings) ==
    LET st == SendBatchEach(reqs, now, failings, 1,
                            [emits |-> <<>>, results |-> <<>>])
    IN  [emits |-> st.emits,
         value |-> [success |-> TRUE,
                    totalProcessed |-> Len(reqs),
                    successCount |->
                        Cardinality({i \in 1 .. Len(st.results) :
                                        st.results[i].success}),
                    results |-> st.results]]

\* NotificationController.sendBatchNotifications on a body that passed the
\* schema; the error thrown for an empty list is answered by the error
\* handling middleware.
BatchNotify(reqs, now, failings) ==
    /\ IF Len(reqs) = 0
       THEN /\ emits' = <<>>
            /\ response' =
                   [status |-> 400,
                    body |-> [success |-> FALSE,
                              error |-> "notifications must be a non-empty array"]]
       ELSE LET out == SendBatchNotifications(reqs, now, failings)
            IN  /\ emits' = out.emits
                /\ response' = [status |-> 200, body |-> out.value]
    /\ svc' = NoSvc
    /\ raised' = NoError
    /\ asked' = asked
    /\ lastOp' = [kind |-> "batchNotify", conn |-> 0,
                  arg |-> [reqs |-> reqs, failings |-> failings, now |-> now]]
    /\ UNCHANGED <<status, nspOf, handshake, rooms, sids>>

\* ------------------------------------------------------------------------
\* POST /notify (src/src/routes/notificationRoutes.js)
\* ------------------------------------------------------------------------

\* the limits of notifySchema
MinAppIdLength == 1
MaxAppIdLength == 100
MaxUsers == 1000
MaxDevices == 1000
MaxEventTopics == 100
MaxEventNameLength == 100

\* the properties notifySchema knows
SchemaProperties == {"appId", "users", "devices", "eventTopics", "eventName", "data"}

\* a schema that lets unknown properties pass
SchemaViolationsAllowExtra(body) ==
    LET TooLong(f, max) ==
            IF Has(body, f) /\ Len(body[f]) > max
            THEN {[path |-> f, keyword |-> "max"]} ELSE {}
    IN  (IF ~Has(body, "appId") THEN {[path |-> "appId", keyword |-> "required"]}
         ELSE IF Len(body.appId) < MinAppIdLength
              THEN {[path |-> "appId", keyword |-> "minLength"]}
              ELSE {})
        \cup TooLong("appId", MaxAppIdLength)
        \cup TooLong("users", MaxUsers)
        \cup TooLong("devices", MaxDevices)
        \cup TooLong("eventTopics", MaxEventTopics)
        \cup TooLong("eventName", MaxEventNameLength)

\* What notifySchema rejects in a body whose values have the types the
\* schema asks for (strings, arrays of strings, an object): the violated
\* keywords, each with the property it is about.
SchemaViolations(body) ==
    LET TooLong(f, max) ==
            IF Has(body, f) /\ Len(body[f]) > max
            THEN {[path |-> f, keyword |-> "max"]} ELSE {}
    IN  (IF ~Has(body, "appId") THEN {[path |-> "appId", keyword |-> "required"]}
         ELSE IF Len(body.appId) < MinAppIdLength
              THEN {[path |-> "appId", keyword |-> "minLength"]}
              ELSE {})
        \cup TooLong("appId", MaxAppIdLength)
        \cup TooLong("users", MaxUsers)
        \cup TooLong("devices", MaxDevices)
        \cup TooLong("eventTopics", MaxEventTopics)
        \cup TooLong("eventName", MaxEventNameLength)
        \cup {[path |-> f, keyword |-> "additionalProperties"] :
                 f \in DOMAIN body \ SchemaProperties}

\* validate(notifySchema, "body"): the body passes to the controller when
\* the schema rejects nothing; otherwise the middleware answers 400 with the
\* violations as details and the controller does not run.
Validate(body) ==
    LET v == SchemaViolations(body)
    IN  [passed |-> v = {},
         response |-> [status |-> 400,
                       body |-> [error |-> "Invalid request parameters",
                                 details |-> v]]]

\* app.post("/notify", validate(notifySchema, "body"), sendNotification)
PostNotify(body, now, failing, crash) ==
    IF Validate(body).passed
    THEN Notify(body, now, failing, crash)
    ELSE /\ response' = Validate(body).response
         /\ emits' = <<>>
         /\ svc' = NoSvc
         /\ raised' = NoError
         /\ asked' = asked
         /\ lastOp' = [kind |-> "notifyRejected", conn |-> 0,
                       arg |-> [req |-> body, failing |-> failing, now |-> now,
                                crash |-> crash]]
         /\ UNCHANGED <<status, nspOf, handshake, rooms, sids>>

\* ------------------------------------------------------------------------
\* The membership and count machine
\* ------------------------------------------------------------------------
ArrayOf(items) == [isArray |-> TRUE, items |-> items]

\* an event argument that is a single string, not an array
StringOf(key) == [isArray |-> FALSE, items |-> <<key>>]

\* Inputs of the membership scenarios: one countable topic, subscribed to
\* and counted in both namespaces.
CountHandshakes == {NoHandshake}
CountSubscribeArgs == {ArrayOf(<<KeyAB>>)}
CountSubscribeCountArgs == {<<KeyAB>>}

DoConnect == \E c \in Conns, app \in Apps, hs \in CountHandshakes : Connect(c, app, hs)
DoSubscribe == \E c \in Conns, arg \in CountSubscribeArgs : Subscribe(c, arg)
DoSubscribeCount ==
    \E c \in Conns, ts \in CountSubscribeCountArgs : SubscribeCount(c, ArrayOf(ts))
DoDisconnect == \E c \in Conns : Disconnect(c)

Next == DoConnect \/ DoSubscribe \/ DoSubscribeCount \/ DoDisconnect

Spec == Init /\ [][Next]_vars

\* ------------------------------------------------------------------------
\* The notification scenarios
\* ------------------------------------------------------------------------
NotifyConns == 1 .. NumNotifyConns
NotifyHandshakes == {[clientId |-> KeyU1, deviceId |-> KeyD1]}
NotifySubscribeArgs == {ArrayOf(<<KeyAB>>), ArrayOf(<<KeyAB, KeyCD>>)}

\* the values of Date.now()
NowValues == {1000}

\* request bodies without their appId
\* event names a caller gives: "custom", and the empty string
EventCustom == <<"c", "u", "s", "t", "o", "m">>
EventEmpty == <<>>

NotifyBodies ==
    { [users |-> <<KeyU1>>, eventTopics |-> <<KeyAB, KeyCD>>, data |-> [a |-> 1]],
      [users |-> <<KeyU1>>, eventTopics |-> <<KeyAB>>,
       data |-> [topic |-> KeyCD, a |-> 1]],
      [users |-> <<KeyU1, KeyU2>>, data |-> [a |-> 1]],
      [users |-> <<KeyU1>>, devices |-> <<KeyD1>>, eventTopics |-> <<KeyCD>>],
      [devices |-> <<KeyD1>>, data |-> [type |-> "custom", timestamp |-> 5]],
      [devices |-> <<KeyD1>>, data |-> [type |-> "", timestamp |-> 0]],
      [data |-> [a |-> 1]],
      [users |-> <<>>, devices |-> <<>>, eventTopics |-> <<>>],
      [users |-> <<KeyU1>>, eventTopics |-> <<KeyAB>>, eventName |-> EventCustom],
      [users |-> <<KeyU1>>, eventTopics |-> <<KeyAB>>, eventName |-> EventEmpty] }

\* the bodies also sent to the second application
NotifyBodiesB ==
    { [users |-> <<KeyU1>>, eventTopics |-> <<KeyAB, KeyCD>>, data |-> [a |-> 1]],
      [devices |-> <<KeyD1>>, data |-> [type |-> "custom", timestamp |-> 5]] }

NotifyRequests ==
    {WithField(b, "appId", AppA) : b \in NotifyBodies}
        \cup {WithField(b, "appId", AppB) : b \in NotifyBodiesB}

\* the sets of emits that throw, for a request: none, any single one, all;
\* none for the requests that give an event name and for those to the
\* second application
FailingSets(req) ==
    IF Has(req, "eventName") \/ req.appId = AppB THEN {{}}
    ELSE {{}} \cup {{p} : p \in TargetPositions(req)} \cup {TargetPositions(req)}

NConnect == \E c \in NotifyConns, app \in Apps, hs \in NotifyHandshakes : Connect(c, app, hs)
NSubscribe == \E c \in NotifyConns, arg \in NotifySubscribeArgs : Subscribe(c, arg)
NDisconnect == \E c \in NotifyConns : Disconnect(c)
NNotify ==
    \E req \in NotifyRequests, now \in NowValues :
        \E failing \in FailingSets(req) : Notify(req, now, failing, NoCrash)

\* the batches sent: a request without target first or in the middle, two
\* applications in one batch, and an emit that throws in one request
BatchUser == [appId |-> AppA, users |-> <<KeyU1>>, data |-> [a |-> 1]]
BatchNoTarget == [appId |-> AppA, data |-> [a |-> 1]]
BatchTopic == [appId |-> AppA, eventTopics |-> <<KeyAB>>]
BatchDeviceB == [appId |-> AppB, devices |-> <<KeyD1>>]

NotifyBatches ==
    { [reqs |-> <<BatchUser, BatchNoTarget, BatchTopic>>,
       failings |-> <<{}, {}, {}>>],
      [reqs |-> <<BatchUser, BatchNoTarget, BatchTopic>>,
       failings |-> <<{<<"users", 1>>}, {}, {}>>],
      [reqs |-> <<BatchNoTarget, BatchDeviceB>>, failings |-> <<{}, {}>>],
      [reqs |-> <<BatchUser, BatchTopic>>, failings |-> <<{}, {}>>] }

NBatchNotify ==
    \E b \in NotifyBatches, now \in NowValues :
        BatchNotify(b.reqs, now, b.failings)

NextNotify == NConnect \/ NSubscribe \/ NDisconnect \/ NNotify \/ NBatchNotify

SpecNotify == Init /\ [][NextNotify]_vars

\* ------------------------------------------------------------------------
\* Helpers of the properties
\* ------------------------------------------------------------------------
\* the number of occurrences of x in the sequence s
Occurrences(s, x) == Cardinality({i \in 1 .. Len(s) : s[i] = x})

\* the count updates about topic t among the emits es
CountEmitsFor(es, t) ==
    LET IsFor(e) == e.payload.type = "count" /\ e.payload.topic = t
    IN  SelectSeq(es, IsFor)

\* a key on which the disconnecting handler computes a leave count
Countable(key) == Includes(key, ColonStr) /\ ~Includes(key, CountStr)

\* ------------------------------------------------------------------------
\* The identity scenarios: connections with no, one, two different and two
\* equal identity headers, one identity containing ":", whose count room
\* other connections may have joined.
IdentityHandshakes ==
    { NoHandshake,
      [clientId |-> KeyU1, deviceId |-> NoId],
      [clientId |-> NoId, deviceId |-> KeyD1],
      [clientId |-> KeyU1, deviceId |-> KeyD1],
      [clientId |-> KeyUC, deviceId |-> KeyUC] }

IConnect ==
    \E c \in NotifyConns, app \in Apps, hs \in IdentityHandshakes : Connect(c, app, hs)
IdentitySubscribeCountArgs == {<<KeyUC, KeyU1>>}
ISubscribeCount ==
    \E c \in NotifyConns, ts \in IdentitySubscribeCountArgs :
        SubscribeCount(c, ArrayOf(ts))
IDisconnect == \E c \in NotifyConns : Disconnect(c)

NextIdentity == IConnect \/ ISubscribeCount \/ IDisconnect

SpecIdentity == Init /\ [][NextIdentity]_vars

\* ------------------------------------------------------------------------
\* The HTTP scenarios: connections of one application that subscribe to
\* topic a:b (with an array or with the bare topic string) or to its count,
\* and POST /notify with bodies the schema accepts (one of them
\* naming the count room itself as a target), bodies it rejects, and
\* unexpected exceptions inside the service.
Repeat(x, n) == [i \in 1 .. n |-> x]

HttpBodiesValid ==
    { [appId |-> AppA, eventTopics |-> <<KeyAB>>, data |-> [a |-> 1]],
      [appId |-> AppA, eventTopics |-> <<CountKey(KeyAB)>>, data |-> [a |-> 1]],
      [appId |-> AppA, users |-> <<CountKey(KeyAB)>>],
      [appId |-> AppA, data |-> [a |-> 1]] }

HttpBodiesInvalid ==
    { [eventTopics |-> <<KeyAB>>, data |-> [a |-> 1]],
      [appId |-> <<>>, eventTopics |-> <<KeyAB>>],
      [appId |-> Repeat("A", MaxAppIdLength + 1), eventTopics |-> <<KeyAB>>],
      [appId |-> AppA, users |-> Repeat(KeyAB, MaxUsers + 1)],
      [appId |-> AppA, devices |-> Repeat(KeyAB, MaxDevices + 1)],
      [appId |-> AppA, eventTopics |-> Repeat(KeyAB, MaxEventTopics + 1)],
      [appId |-> AppA, eventTopics |-> <<KeyAB>>,
       eventName |-> Repeat("e", MaxEventNameLength + 1)],
      [appId |-> AppA, eventTopics |-> <<KeyAB>>, priority |-> 1] }

\* the unexpected exceptions: an Error with a message, or with none
Crashes ==
    { NoCrash,
      [at |-> "namespace", message |-> "adapter unavailable"],
      [at |-> "stats", message |-> "logger closed"],
      [at |-> "stats", message |-> ""] }

\* the exceptions met by a request: any of them by a request to a topic
\* and by a request without target, none by the other requests
CrashesFor(body) ==
    IF body \in { [appId |-> AppA, eventTopics |-> <<KeyAB>>, data |-> [a |-> 1]],
                  [appId |-> AppA, data |-> [a |-> 1]] }
    THEN Crashes ELSE {NoCrash}

HConnect == \E c \in NotifyConns : Connect(c, AppA, NoHandshake)
HttpSubscribeArgs == {ArrayOf(<<KeyAB>>), StringOf(KeyAB)}
HSubscribe == \E c \in NotifyConns, arg \in HttpSubscribeArgs : Subscribe(c, arg)
HSubscribeCount == \E c \in NotifyConns : SubscribeCount(c, ArrayOf(<<KeyAB>>))
HDisconnect == \E c \in NotifyConns : Disconnect(c)
HPostNotify ==
    \E body \in HttpBodiesValid \cup HttpBodiesInvalid, now \in NowValues :
        \E crash \in CrashesFor(body) : PostNotify(body, now, {}, crash)

NextHttp == HConnect \/ HSubscribe \/ HSubscribeCount \/ HDisconnect \/ HPostNotify

SpecHttp == Init /\ [][NextHttp]_vars

\* ------------------------------------------------------------------------
\* The key scenarios: connections of one application that subscribe to a
\* key without ":" and a key containing "count", to a countable key listed
\* twice, and to the counts of the three keys.
KeysSubscribeArgs == {ArrayOf(<<KeyPlain, KeyMyCount>>), ArrayOf(<<KeyAB, KeyAB>>)}
KeysSubscribeCountArgs == {ArrayOf(<<KeyAB, KeyPlain, KeyMyCount>>)}

KConnect == \E c \in NotifyConns : Connect(c, AppA, NoHandshake)
KSubscribe == \E c \in NotifyConns, arg \in KeysSubscribeArgs : Subscribe(c, arg)
KSubscribeCount ==
    \E c \in NotifyConns, arg \in KeysSubscribeCountArgs : SubscribeCount(c, arg)
KDisconnect == \E c \in NotifyConns : Disconnect(c)

NextKeys == KConnect \/ KSubscribe \/ KSubscribeCount \/ KDisconnect

SpecKeys == Init /\ [][NextKeys]_vars

\* ------------------------------------------------------------------------
\* The malformed-input scenarios: connections that stay connected and send
\* subscribe with an array holding a number, and subscribeCount with a bare
\* string.
MalformedSubscribeArgs == {ArrayOf(<<KeyAB>>), ArrayOf(<<KeyAB, Number42>>)}
MalformedSubscribeCountArgs == {ArrayOf(<<KeyAB>>), StringOf(KeyAB)}

MConnect == \E c \in NotifyConns : Connect(c, AppA, NoHandshake)
MSubscribe == \E c \in NotifyConns, arg \in MalformedSubscribeArgs : Subscribe(c, arg)
MSubscribeCount ==
    \E c \in NotifyConns, arg \in MalformedSubscribeCountArgs : SubscribeCount(c, arg)

NextMalformed == MConnect \/ MSubscribe \/ MSubscribeCount

SpecMalformed == Init /\ [][NextMalformed]_vars

\* ------------------------------------------------------------------------
\* The life-cycle scenarios: connections of one application with the same
\* client identity that subscribe to topic a:b, to its count, or to the key
\* "a:b:count" as if it were a topic, that disconnect, and notifications to
\* the identity and the topic.
LifeHandshake == [clientId |-> KeyU1, deviceId |-> NoId]
LifeSubscribeArgs == {ArrayOf(<<KeyAB>>), ArrayOf(<<CountKey(KeyAB)>>)}
LifeRequest == [appId |-> AppA, users |-> <<KeyU1>>, eventTopics |-> <<KeyAB>>]

LifeHandshakes == {LifeHandshake, NoHandshake}
LConnect == \E c \in NotifyConns, hs \in LifeHandshakes : Connect(c, AppA, hs)
LSubscribe == \E c \in NotifyConns, arg \in LifeSubscribeArgs : Subscribe(c, arg)
LSubscribeCount == \E c \in NotifyConns : SubscribeCount(c, ArrayOf(<<KeyAB>>))
LDisconnect == \E c \in NotifyConns : Disconnect(c)
LifeRequestTwice ==
    [appId |-> AppA, users |-> <<KeyU1, KeyU1>>, eventTopics |-> <<KeyAB>>]
LifeRequests == {LifeRequest, LifeRequestTwice}
LNotify ==
    \E req \in LifeRequests, now \in NowValues : Notify(req, now, {}, NoCrash)

NextLife == LConnect \/ LSubscribe \/ LSubscribeCount \/ LDisconnect \/ LNotify

SpecLife == Init /\ [][NextLife]_vars

SocketOps == {"connect", "subscribe", "subscribeCount", "disconnect"}

\* ------------------------------------------------------------------------
\* Count broadcasts on join and leave
\* ------------------------------------------------------------------------
\* C1: when a connection that is not yet in topic room t subscribes to t
\* once while the count room of t has a member, exactly one count update
\* about t is emitted, to the count room of t, and its count is the number
\* of connections that have joined t so far (the k-th join broadcasts k).
C1_Step ==
    \A c \in Conns, t \in {KeyAB} :
        LET a == nspOf[c]
            k == Cardinality(Members(rooms[a], t)) + 1
        IN  (/\ lastOp'.kind = "subscribe"
             /\ lastOp'.conn = c
             /\ status[c] = "active"
             /\ lastOp'.arg.isArray
             /\ Occurrences(lastOp'.arg.items, t) = 1
             /\ c \notin Members(rooms[a], t)
             /\ Members(rooms[a], CountKey(t)) # {})
            => /\ Len(CountEmitsFor(emits', t)) = 1
               /\ CountEmitsFor(emits', t)[1] =
                      [nsp |-> a, room |-> CountKey(t), event |-> DataUpdate,
                       payload |-> CountPayload(t, k),
                       to |-> Members(rooms[a], CountKey(t))]
               /\ Cardinality(Members(rooms'[a], t)) = k

C1_KthJoinBroadcastsK == [][C1_Step]_vars

\* a subscribe has made the topic room of size 2 and broadcast count 2 to a
\* non-empty count room
C1_Witness ==
    /\ lastOp.kind = "subscribe"
    /\ Len(emits) = 1
    /\ emits[1].payload = CountPayload(KeyAB, 2)
    /\ emits[1].to # {}

\* C2: when a member of a countable topic room t (key with ':' and without
\* 'count') disconnects while the count room of t has a member: if the room
\* had M >= 2 members exactly one count update about t is emitted, to the
\* count room, with count M-1 (the size the room has afterwards); if it
\* had one member no count update about t is emitted.
C2_Step ==
    \A c \in Conns :
        LET a == nspOf[c]
        IN  (lastOp'.kind = "disconnect" /\ lastOp'.conn = c /\ status[c] = "active")
            => \A t \in DOMAIN rooms[a] :
                   LET m == Cardinality(rooms[a][t])
                   IN  (/\ Countable(t)
                        /\ c \in rooms[a][t]
                        /\ Members(rooms[a], CountKey(t)) # {})
                       => IF m >= 2
                          THEN /\ Len(CountEmitsFor(emits', t)) = 1
                               /\ CountEmitsFor(emits', t)[1] =
                                      [nsp |-> a, room |-> CountKey(t),
                                       event |-> DataUpdate,
                                       payload |-> CountPayload(t, m - 1),
                                       to |-> Members(rooms[a], CountKey(t))]
                               /\ Cardinality(Members(rooms'[a], t)) = m - 1
                          ELSE Len(CountEmitsFor(emits', t)) = 0

C2_LeaveBroadcastsRemaining == [][C2_Step]_vars

\* a disconnect of one of two members has broadcast count 1 to a non-empty
\* count room
C2_Witness ==
    /\ lastOp.kind = "disconnect"
    /\ Len(emits) = 1
    /\ emits[1].payload = CountPayload(KeyAB, 1)
    /\ emits[1].to # {}

\* C3: no count update is emitted while the count room of its topic has no
\* member (the recipients of an emit are the members of its room at the
\* moment of the emit).
C3_NoCountEmitToEmptyCountRoom ==
    \A i \in 1 .. Len(emits) :
        emits[i].payload.type = "count" => emits[i].to # {}

\* ------------------------------------------------------------------------
\* Namespace isolation of the socket operations
\* ------------------------------------------------------------------------
\* C5: a connect, subscribe, subscribeCount or disconnect of a connection
\* of namespace a leaves the rooms of every other namespace unchanged, all
\* its emits are made in namespace a and reach connections of a only, and a
\* connection keeps its namespace while it is active.
C5_Step ==
    \A c \in Conns :
        (lastOp'.kind \in SocketOps /\ lastOp'.conn = c)
        => LET a == IF lastOp'.kind = "connect" THEN nspOf'[c] ELSE nspOf[c]
           IN  /\ a \in Apps
               /\ \A b \in Apps \ {a} : rooms'[b] = rooms[b]
               /\ \A i \in 1 .. Len(emits') :
                      /\ emits'[i].nsp = a
                      /\ \A d \in emits'[i].to : nspOf[d] = a
               /\ \A d \in Conns :
                      (status[d] = "active" /\ status'[d] = "active")
                      => nspOf'[d] = nspOf[d]

C5_SocketOpsStayInNamespace == [][C5_Step]_vars

\* both namespaces hold the same topic key and its count room, and a count
\* update has just been delivered in one of them
C5_Witness ==
    /\ \A a \in Apps : RoomsHas(rooms[a], KeyAB) /\ RoomsHas(rooms[a], CountKey(KeyAB))
    /\ Len(emits) = 1
    /\ emits[1].to # {}

\* ------------------------------------------------------------------------
\* Notification fan-out
\* ------------------------------------------------------------------------
TargetFields == <<"users", "devices", "eventTopics">>

\* the targets of a request in the order users, devices, eventTopics
CatTargets(req, f) ==
    [i \in 1 .. TargetCount(req, f) |-> [cat |-> f, idx |-> i, key |-> req[f][i]]]

AllTargets(req) ==
    CatTargets(req, "users") \o CatTargets(req, "devices") \o CatTargets(req, "eventTopics")

\* the targets whose emit does not throw
Surviving(req, failing) ==
    LET Ok(t) == <<t.cat, t.idx>> \notin failing
    IN  SelectSeq(AllTargets(req), Ok)

\* the request has no target: each list is absent or empty
NoTarget(req) ==
    \A i \in 1 .. 3 : ~Has(req, TargetFields[i]) \/ Len(req[TargetFields[i]]) = 0

\* the last step was a notify request that passed the target validation
\* and met no unexpected exception
Notified ==
    /\ lastOp.kind = "notify"
    /\ ~NoTarget(lastOp.arg.req)
    /\ lastOp.arg.crash.at = "none"

\* the emits of the last notify request are one per surviving target, in
\* order
EmitsMatchTargets ==
    LET sv == Surviving(lastOp.arg.req, lastOp.arg.failing)
    IN  /\ Len(emits) = Len(sv)
        /\ \A i \in 1 .. Len(sv) : emits[i].room = sv[i].key

\* C4: every emit of a notify request with appId a is made in namespace a
\* and reaches connections of namespace a only, whatever connections of
\* other namespaces are members of a room with the same key.
C4_NotifyStaysInItsApp ==
    lastOp.kind = "notify"
    => \A i \in 1 .. Len(emits) :
           /\ emits[i].nsp = lastOp.arg.req.appId
           /\ \A d \in emits[i].to : nspOf[d] = lastOp.arg.req.appId

\* a notification of app A has been delivered to a room whose key also
\* names a non-empty room of app B
C4_Witness ==
    /\ lastOp.kind = "notify"
    /\ lastOp.arg.req.appId = AppA
    /\ \E i \in 1 .. Len(emits) :
           /\ emits[i].room = KeyAB
           /\ emits[i].to # {}
           /\ Members(rooms[AppB], KeyAB) # {}

\* C6 as stated: for any caller data, a request with users and eventTopics
\* emits to user rooms a payload without `topic` field and to each topic
\* room a payload whose `topic` is that room's key.
C6_Original ==
    (/\ Notified
     /\ HasTargets(lastOp.arg.req, "users")
     /\ HasTargets(lastOp.arg.req, "eventTopics"))
    => LET sv == Surviving(lastOp.arg.req, lastOp.arg.failing)
       IN  /\ EmitsMatchTargets
           /\ \A i \in 1 .. Len(sv) :
                  /\ sv[i].cat = "users" => ~Has(emits[i].payload, "topic")
                  /\ sv[i].cat = "eventTopics" =>
                         /\ Has(emits[i].payload, "topic")
                         /\ emits[i].payload.topic = sv[i].key

\* C6 (amended): for a request with users and eventTopics, the payload
\* emitted to each topic room has `topic` equal to that room's key, and the
\* payload emitted to a user room has a `topic` field only if the caller's
\* data has one, which is then delivered unchanged.
C6_TopicFieldPerTarget ==
    (/\ Notified
     /\ HasTargets(lastOp.arg.req, "users")
     /\ HasTargets(lastOp.arg.req, "eventTopics"))
    => LET sv == Surviving(lastOp.arg.req, lastOp.arg.failing)
           data == DataOf(lastOp.arg.req)
       IN  /\ EmitsMatchTargets
           /\ \A i \in 1 .. Len(sv) :
                  /\ sv[i].cat = "users" =>
                         IF Has(data, "topic")
                         THEN /\ Has(emits[i].payload, "topic")
                              /\ emits[i].payload.topic = data.topic
                         ELSE ~Has(emits[i].payload, "topic")
                  /\ sv[i].cat = "eventTopics" =>
                         /\ Has(emits[i].payload, "topic")
                         /\ emits[i].payload.topic = sv[i].key

\* a request with a user and two topics, and data without `topic`, has
\* been delivered to a member of the user room and to a member of a topic
\* room
C6_Witness ==
    /\ Notified
    /\ lastOp.arg.failing = {}
    /\ TargetsOf(lastOp.arg.req, "users") = <<KeyU1>>
    /\ HasTargets(lastOp.arg.req, "eventTopics")
    /\ ~Has(DataOf(lastOp.arg.req), "topic")
    /\ Len(emits) = 3
    /\ emits[1].to # {}
    /\ emits[2].to # {}

\* C7: each payload emitted to a topic room is the prepared payload with
\* `topic` set to that room's key, each payload emitted to a user or device
\* room is the prepared payload itself, and the base payload object is the
\* prepared payload after the fan-out as before it.
C7_PerTopicCopy ==
    Notified
    => LET sv == Surviving(lastOp.arg.req, lastOp.arg.failing)
       IN  /\ EmitsMatchTargets
           /\ svc.base = svc.prepared
           /\ \A i \in 1 .. Len(sv) :
                  IF sv[i].cat = "eventTopics"
                  THEN emits[i].payload = WithField(svc.prepared, "topic", sv[i].key)
                  ELSE emits[i].payload = svc.prepared

\* a request with two topics has been delivered to members of both rooms,
\* each with its own key
C7_Witness ==
    /\ Notified
    /\ TargetsOf(lastOp.arg.req, "eventTopics") = <<KeyAB, KeyCD>>
    /\ Len(emits) = 3
    /\ emits[2].payload.topic = KeyAB /\ emits[2].to # {}
    /\ emits[3].payload.topic = KeyCD /\ emits[3].to # {}

\* the emits to the user rooms are one per user whose emit does not throw,
\* each with the prepared payload
UsersReceivePrepared ==
    LET sv == Surviving(lastOp.arg.req, lastOp.arg.failing)
    IN  /\ EmitsMatchTargets
        /\ \A i \in 1 .. Len(sv) :
               sv[i].cat = "users" => emits[i].payload = svc.prepared

\* C8 as stated: the prepared payload has every key of the caller's data
\* with its value, its type is "httpRequest" exactly when the data has no
\* `type` key, and every user room receives it.
C8_Original ==
    Notified
    => LET data == DataOf(lastOp.arg.req)
       IN  /\ \A k \in DOMAIN data :
                  Has(svc.prepared, k) /\ svc.prepared[k] = data[k]
           /\ (svc.prepared.type = "httpRequest") <=> ~Has(data, "type")
           /\ UsersReceivePrepared

\* C8 (amended): the prepared payload has every key of the caller's data;
\* every value is unchanged except a falsy `type`, replaced by
\* "httpRequest", and a falsy `timestamp`, replaced by the current time;
\* the type is the caller's when that is truthy and "httpRequest" when it
\* is absent or falsy (or no data is supplied); every user room whose emit
\* does not throw receives this payload.
C8_PreparedPayload ==
    Notified
    => LET data == DataOf(lastOp.arg.req)
           p == svc.prepared
       IN  /\ DOMAIN p = DOMAIN data \cup {"type", "timestamp"}
           /\ \A k \in DOMAIN data \ {"type", "timestamp"} : p[k] = data[k]
           /\ p.type = IF Has(data, "type") /\ data.type # ""
                       THEN data.type ELSE "httpRequest"
           /\ p.timestamp = IF Has(data, "timestamp") /\ data.timestamp # 0
                            THEN data.timestamp ELSE lastOp.arg.now
           /\ UsersReceivePrepared

\* the request {users: [u1, u2], data: {a: 1}} has been delivered to a
\* member of room u1 as {a: 1, type: "httpRequest", timestamp}
C8_Witness ==
    /\ Notified
    /\ TargetsOf(lastOp.arg.req, "users") = <<KeyU1, KeyU2>>
    /\ lastOp.arg.failing = {}
    /\ Len(emits) = 2
    /\ emits[1].to # {}
    /\ emits[1].payload = [a |-> 1, type |-> "httpRequest", timestamp |-> lastOp.arg.now]

\* C9: a notify request whose users, devices and eventTopics are each
\* absent or empty is answered 400 with the no-target error, performs no
\* emit and leaves connections and rooms as they were.
C9_Step ==
    (lastOp'.kind = "notify" /\ NoTarget(lastOp'.arg.req))
    => /\ response' = [status |-> 400,
                       body |-> [success |-> FALSE,
                                 error |-> "At least one of 'users', 'devices', or 'eventTopics' must be provided"]]
       /\ emits' = <<>>
       /\ UNCHANGED <<status, nspOf, handshake, rooms, sids>>

C9_NoTargetRejected == [][C9_Step]_vars

\* a request with three empty lists has been rejected while rooms have
\* members
C9_Witness ==
    /\ lastOp.kind = "notify"
    /\ Has(lastOp.arg.req, "users")
    /\ NoTarget(lastOp.arg.req)
    /\ response.status = 400
    /\ Members(rooms[lastOp.arg.req.appId], KeyU1) # {}

\* C10: in a validated notify request, every target whose emit does not
\* throw gets its emit, in order, whichever other emits of the request
\* throw, and the request is answered 200 with success.
C10_FailuresAreIsolated ==
    Notified
    => /\ EmitsMatchTargets
       /\ response.status = 200
       /\ response.body.success

\* the emit to the first of two topics threw and the second topic's members
\* were still reached
C10_Witness ==
    /\ Notified
    /\ TargetsOf(lastOp.arg.req, "eventTopics") = <<KeyAB, KeyCD>>
    /\ lastOp.arg.failing = {<<"eventTopics", 1>>}
    /\ Len(emits) = 2
    /\ emits[2].room = KeyCD
    /\ emits[2].to # {}
    /\ response.status = 200

\* the length of a target list of a request, 0 when the list is absent
ListLength(req, f) == IF f \in DOMAIN req THEN Len(req[f]) ELSE 0

\* the response that reports success with the lengths of the three lists
AllSuccessResponse(req) ==
    [status |-> 200,
     body |-> [success |-> TRUE,
               message |-> "Notification sent successfully",
               stats |-> [userTargets |-> ListLength(req, "users"),
                          deviceTargets |-> ListLength(req, "devices"),
                          topicTargets |-> ListLength(req, "eventTopics")]]]

\* C11: a validated notify request is answered 200 "Notification sent
\* successfully" with per-category counts equal to the lengths of its users,
\* devices and eventTopics lists, whether or not a targeted room has members.
C11_CountsAreListLengths ==
    Notified => response = AllSuccessResponse(lastOp.arg.req)

\* a request with three targets was answered with counts 1, 1, 1 although
\* none of its emits reached a connection
C11_Witness ==
    /\ Notified
    /\ lastOp.arg.failing = {}
    /\ Len(emits) = 3
    /\ \A i \in 1 .. 3 : emits[i].to = {}
    /\ response.status = 200
    /\ response.body.stats =
           [userTargets |-> 1, deviceTargets |-> 1, topicTargets |-> 1]

\* C12: when the emit to a target of a validated notify request throws, the
\* response differs from the response the request gets when every emit
\* succeeds, and the emit that threw is not attempted again.
C12_FailureVisibleInResult ==
    (Notified /\ lastOp.arg.failing # {})
    => /\ response # AllSuccessResponse(lastOp.arg.req)
       /\ EmitsMatchTargets

\* the emits expected of requests i .. Len(reqs) of a batch: for each
\* request that names a target, in order, its targets whose emit does not
\* throw, in the namespace of the request
RECURSIVE BatchExpected(_, _, _)
BatchExpected(reqs, failings, i) ==
    IF i > Len(reqs) THEN <<>>
    ELSE LET sv == IF NoTarget(reqs[i]) THEN <<>>
                   ELSE Surviving(reqs[i], failings[i])
         IN  [j \in 1 .. Len(sv) |-> [nsp |-> reqs[i].appId, room |-> sv[j].key]]
                 \o BatchExpected(reqs, failings, i + 1)

\* C13: a batch is answered 200 with one entry per request in input order,
\* a failure entry exactly for the requests without target; totalProcessed
\* is the list length, successCount the number of entries with success, and
\* every request that names a target is delivered, whatever request before
\* or after it fails validation.
C13_BatchProcessesEveryRequest ==
    lastOp.kind = "batchNotify"
    => LET reqs == lastOp.arg.reqs
           res == response.body.results
           want == BatchExpected(reqs, lastOp.arg.failings, 1)
       IN  /\ response.status = 200
           /\ response.body.totalProcessed = Len(reqs)
           /\ Len(res) = Len(reqs)
           /\ \A i \in 1 .. Len(reqs) :
                  /\ res[i].appId = reqs[i].appId
                  /\ res[i].success = ~NoTarget(reqs[i])
           /\ response.body.successCount =
                  Cardinality({i \in 1 .. Len(res) : res[i].success})
           /\ Len(emits) = Len(want)
           /\ \A k \in 1 .. Len(want) :
                  /\ emits[k].nsp = want[k].nsp
                  /\ emits[k].room = want[k].room

\* a batch whose second request has no target delivered its first and its
\* third request to connected members
C13_Witness ==
    /\ lastOp.kind = "batchNotify"
    /\ Len(lastOp.arg.reqs) = 3
    /\ NoTarget(lastOp.arg.reqs[2])
    /\ ~response.body.results[2].success
    /\ response.body.successCount = 2
    /\ Len(emits) = 2
    /\ emits[1].to # {}
    /\ emits[2].to # {}

\* C14: a subscribe event whose argument is not an array joins no room,
\* creates no room, emits nothing and answers nothing: the membership store
\* is unchanged.
C14_Step ==
    (lastOp'.kind = "subscribe" /\ ~lastOp'.arg.isArray)
    => /\ rooms' = rooms
       /\ sids' = sids
       /\ emits' = <<>>
       /\ response' = NoResponse
       /\ UNCHANGED <<status, nspOf, handshake>>

C14_NonArraySubscribeIsNoOp == [][C14_Step]_vars

\* a connection sent subscribe("a:b") while the count room of a:b had a
\* member, and it is in no room but its own
C14_Witness ==
    /\ lastOp.kind = "subscribe"
    /\ ~lastOp.arg.isArray
    /\ lastOp.arg.items = <<KeyAB>>
    /\ Members(rooms[nspOf[lastOp.conn]], CountKey(KeyAB)) # {}
    /\ lastOp.conn \notin Members(rooms[nspOf[lastOp.conn]], KeyAB)
    /\ sids[lastOp.conn] = <<SocketId(lastOp.conn)>>
    /\ emits = <<>>

\* the keys that name a room in the identity scenarios
IdentityKeys ==
    {KeyU1, KeyD1, KeyUC, CountKey(KeyUC), CountKey(KeyU1)}
        \cup {SocketId(c) : c \in Conns}

\* C15: right after its connect, a connection is a member of the room of
\* each identity it supplied, in its own namespace, and of no other room
\* but its own (one identity room when both identities are equal, none when
\* none is supplied); no other membership changes and the connect emits
\* nothing.
C15_Step ==
    lastOp'.kind = "connect"
    => LET c == lastOp'.conn
           a == lastOp'.arg.app
           hs == lastOp'.arg.hs
           ids == {hs.clientId, hs.deviceId} \ {NoId}
       IN  /\ nspOf'[c] = a
           /\ \A k \in ids : c \in Members(rooms'[a], k)
           /\ Range(sids'[c]) = {SocketId(c)} \cup ids
           /\ Len(sids'[c]) = 1 + Cardinality(ids)
           /\ \A k \in IdentityKeys :
                  /\ Members(rooms'[a], k) \ {c} = Members(rooms[a], k)
                  /\ c \in Members(rooms'[a], k) <=> k \in Range(sids'[c])
           /\ \A b \in Apps \ {a} : rooms'[b] = rooms[b]
           /\ emits' = <<>>

C15_IdentityRoomsOnConnect == [][C15_Step]_vars

\* a connection with equal client and device identity "u:1" has connected
\* while another connection was in the count room of "u:1": it is in one
\* identity room, and nothing was emitted
C15_Witness ==
    /\ lastOp.kind = "connect"
    /\ lastOp.arg.hs = [clientId |-> KeyUC, deviceId |-> KeyUC]
    /\ sids[lastOp.conn] = <<SocketId(lastOp.conn), KeyUC>>
    /\ Members(rooms[lastOp.arg.app], KeyUC) = {lastOp.conn}
    /\ Members(rooms[lastOp.arg.app], CountKey(KeyUC)) # {}
    /\ emits = <<>>

\* C16: subscribeCount([t1..tn]) by connection c adds c to each count room
\* "ti:count" of its namespace and changes no other membership: every topic
\* room ti, every other room and every other namespace stay as they were,
\* and nothing is emitted.
C16_Step ==
    lastOp'.kind = "subscribeCount"
    => LET c == lastOp'.conn
           a == nspOf[c]
           counted == {CountKey(t) : t \in Range(lastOp'.arg.items)}
       IN  /\ \A k \in DOMAIN rooms[a] \cup DOMAIN rooms'[a] \cup counted :
                  Members(rooms'[a], k) =
                      IF k \in counted THEN Members(rooms[a], k) \cup {c}
                      ELSE Members(rooms[a], k)
           /\ \A b \in Apps \ {a} : rooms'[b] = rooms[b]
           /\ \A d \in Conns \ {c} : sids'[d] = sids[d]
           /\ Range(sids'[c]) = Range(sids[c]) \cup counted
           /\ emits' = <<>>
           /\ UNCHANGED <<status, nspOf, handshake>>

C16_SubscribeCountJoinsCountRoomsOnly == [][C16_Step]_vars

\* a connection that is not in the rooms "u:1" and "u1" has joined their
\* count rooms while another connection was a member of "u:1"
C16_Witness ==
    /\ lastOp.kind = "subscribeCount"
    /\ lastOp.arg.items = <<KeyUC, KeyU1>>
    /\ lastOp.conn \in Members(rooms[nspOf[lastOp.conn]], CountKey(KeyUC))
    /\ lastOp.conn \in Members(rooms[nspOf[lastOp.conn]], CountKey(KeyU1))
    /\ lastOp.conn \notin Members(rooms[nspOf[lastOp.conn]], KeyUC)
    /\ lastOp.conn \notin Members(rooms[nspOf[lastOp.conn]], KeyU1)
    /\ Members(rooms[nspOf[lastOp.conn]], KeyUC) # {}
    /\ emits = <<>>

\* C17: every emit of a validated notify request carries the caller's
\* eventName when one is given, and "dataUpdate" when eventName is omitted
\* or is the empty string.
C17_EventNameOrDefault ==
    Notified
    => LET req == lastOp.arg.req
           name == IF Has(req, "eventName") /\ req.eventName # EventEmpty
                   THEN req.eventName ELSE DataUpdate
       IN  \A i \in 1 .. Len(emits) : emits[i].event = name

\* the last step was a POST /notify
Posted(op) == op.kind \in {"notify", "notifyRejected"}

\* the body breaks a rule of the request schema: appId missing, empty or
\* longer than 100 characters; users or devices longer than 1000 items;
\* eventTopics longer than 100 items; a property the schema does not know
ViolatesSchema(body) ==
    \/ "appId" \notin DOMAIN body
    \/ Len(body.appId) = 0
    \/ Len(body.appId) > 100
    \/ ListLength(body, "users") > 1000
    \/ ListLength(body, "devices") > 1000
    \/ ListLength(body, "eventTopics") > 100
    \/ \E f \in DOMAIN body :
           f \notin {"appId", "users", "devices", "eventTopics", "eventName", "data"}

\* C18: a POST /notify body that violates the schema is answered 400
\* "Invalid request parameters", performs no emit and changes no state.
C18_Step ==
    (Posted(lastOp') /\ ViolatesSchema(lastOp'.arg.req))
    => /\ response'.status = 400
       /\ response'.body.error = "Invalid request parameters"
       /\ emits' = <<>>
       /\ UNCHANGED <<status, nspOf, handshake, rooms, sids>>

C18_SchemaViolationRejected == [][C18_Step]_vars

\* a body with 101 topics was rejected while the topic it names had a
\* member
C18_Witness ==
    /\ lastOp.kind = "notifyRejected"
    /\ ListLength(lastOp.arg.req, "eventTopics") = 101
    /\ lastOp.arg.req.eventTopics[1] = KeyAB
    /\ Members(rooms[AppA], KeyAB) # {}
    /\ response.status = 400
    /\ emits = <<>>

\* C19: a notify request that meets an unexpected exception inside the
\* service is answered 500 with the error "Failed to send notification",
\* whatever the message of the exception.
C19_GenericInternalError ==
    (/\ lastOp.kind = "notify"
     /\ ~NoTarget(lastOp.arg.req)
     /\ lastOp.arg.crash.at # "none")
    => /\ response.status = 500
       /\ response.body.error = "Failed to send notification"

\* connection c is active and its only room besides its own is the count
\* room of topic t
OnlyCounts(c, t) ==
    /\ status[c] = "active"
    /\ sids[c] = <<SocketId(c), CountKey(t)>>

C21_Step ==
    /\ lastOp'.kind = "disconnect"
       => \A i \in 1 .. Len(emits') :
              /\ emits'[i].payload.topic \notin {KeyPlain, KeyMyCount}
              /\ Includes(emits'[i].payload.topic, <<":">>)
              /\ ~Includes(emits'[i].payload.topic, <<"c", "o", "u", "n", "t">>)
    /\ \A c \in Conns :
           (/\ lastOp'.kind = "subscribe"
            /\ lastOp'.conn = c
            /\ lastOp'.arg.isArray
            /\ KeyPlain \in Range(lastOp'.arg.items)
            /\ Members(rooms[nspOf[c]], CountKey(KeyPlain)) # {})
           => \E i \in 1 .. Len(emits') :
                  /\ emits'[i].room = CountKey(KeyPlain)
                  /\ emits'[i].payload =
                         CountPayload(KeyPlain,
                             Cardinality(Members(rooms[nspOf[c]], KeyPlain) \cup {c}))

C21_LeaveUpdateOnlyForCountableKeys == [][C21_Step]_vars

\* a connection left the rooms "ab" and "mycount:e", in which another
\* connection stays and whose counts have a subscriber, and nothing was
\* emitted
C21_Witness ==
    /\ lastOp.kind = "disconnect"
    /\ KeyPlain \in Range(lastOp.arg.left)
    /\ KeyMyCount \in Range(lastOp.arg.left)
    /\ Members(rooms[AppA], KeyPlain) # {}
    /\ Members(rooms[AppA], KeyMyCount) # {}
    /\ Members(rooms[AppA], CountKey(KeyPlain)) # {}
    /\ Members(rooms[AppA], CountKey(KeyMyCount)) # {}
    /\ emits = <<>>

\* C22: a subscribe event whose array holds an element that is not a
\* string is rejected as a whole: the connection joins no room, not even
\* those named by its string elements, and no count update is emitted.
C22_Step ==
    (/\ lastOp'.kind = "subscribe"
     /\ lastOp'.arg.isArray
     /\ Number42 \in Range(lastOp'.arg.items))
    => /\ rooms' = rooms
       /\ sids' = sids
       /\ emits' = <<>>

C22_NonStringItemRejectsAll == [][C22_Step]_vars

\* C23: a subscribeCount event whose argument is not an array raises no
\* exception and leaves the membership store unchanged.
C23_Step ==
    (lastOp'.kind = "subscribeCount" /\ ~lastOp'.arg.isArray)
    => /\ raised' = "none"
       /\ rooms' = rooms
       /\ sids' = sids
       /\ emits' = <<>>

C23_NonArraySubscribeCountIgnored == [][C23_Step]_vars

\* C24: identity rooms are never counted: where no connection subscribes to
\* any topic, no count update is emitted whose topic is a client or device
\* identity, neither on connect nor on the disconnect of one of several
\* connections that share the identity.
C24_IdentityRoomsNeverCounted ==
    \A i \in 1 .. Len(emits) :
        emits[i].payload.type = "count"
        => emits[i].payload.topic \notin {KeyU1, KeyD1, KeyUC}

\* C25: a closed connection is a member of no room; its disconnect took it
\* out of every room it was in, each of which lost exactly one member, and
\* left the memberships of the other connections as they were; no emit of
\* a later operation has it among its recipients.
C25_Step ==
    /\ \A c \in Conns :
           status'[c] = "closed"
           => /\ sids'[c] = <<>>
              /\ \A a \in Apps : \A k \in DOMAIN rooms'[a] : c \notin rooms'[a][k]
    /\ \A c \in Conns :
           status[c] = "closed"
           => \A i \in 1 .. Len(emits') : c \notin emits'[i].to
    /\ lastOp'.kind = "disconnect"
       => LET c == lastOp'.conn
              a == lastOp'.arg.app
          IN  /\ status'[c] = "closed"
              /\ DOMAIN rooms'[a] \subseteq DOMAIN rooms[a]
              /\ \A k \in DOMAIN rooms[a] :
                     /\ Members(rooms'[a], k) = rooms[a][k] \ {c}
                     /\ c \in rooms[a][k]
                        => Cardinality(Members(rooms'[a], k)) =
                               Cardinality(rooms[a][k]) - 1
              /\ \A k \in Range(sids[c]) : c \in Members(rooms[a], k)
              /\ \A d \in Conns \ {c} : sids'[d] = sids[d]

C25_ClosedConnectionLeavesEverything == [][C25_Step]_vars

\* after a connection closed, a notification to its identity and to a
\* topic has reached the connection that stayed
C25_Witness ==
    /\ \E c \in Conns : status[c] = "closed"
    /\ lastOp.kind = "notify"
    /\ Len(emits) = 2
    /\ emits[1].to # {}
    /\ emits[2].to # {}

\* C26: a notify or batchNotify request, whether it is answered with
\* success, rejected for its body or its missing target, or has an emit
\* that throws, leaves the room membership of every connection in every
\* namespace as it was.
C26_Step ==
    lastOp'.kind \in {"notify", "notifyRejected", "batchNotify"}
    => /\ rooms' = rooms
       /\ sids' = sids
       /\ UNCHANGED <<status, nspOf, handshake>>

C26_RouterNeverChangesMembership == [][C26_Step]_vars

\* a notify request whose emit to a user threw has delivered to a topic
\* room with members, and a room it targeted without members does not exist
C26_Witness ==
    /\ Notified
    /\ lastOp.arg.failing = {<<"users", 1>>}
    /\ TargetsOf(lastOp.arg.req, "eventTopics") = <<KeyAB, KeyCD>>
    /\ Len(emits) = 2
    /\ emits[1].to # {}
    /\ ~RoomsHas(rooms[lastOp.arg.req.appId], KeyCD)

\* C27: a connect, subscribe, subscribeCount or disconnect of connection c
\* changes the memberships of c only: every other connection is a member of
\* a room after the operation exactly when it was before, in every
\* namespace, also when the operation broadcasts count updates.
C27_Step ==
    \A c \in Conns :
        (lastOp'.kind \in SocketOps /\ lastOp'.conn = c)
        => \A d \in Conns \ {c} :
               /\ sids'[d] = sids[d]
               /\ status'[d] = status[d]
               /\ nspOf'[d] = nspOf[d]
               /\ \A a \in Apps :
                      \A k \in DOMAIN rooms[a] \cup DOMAIN rooms'[a] :
                          d \in Members(rooms'[a], k) <=> d \in Members(rooms[a], k)

C27_OnlyOwnMembershipChanges == [][C27_Step]_vars

\* a connection joined topic a:b, in which another connection already was,
\* and the count update of that join was delivered; both are members
C27_Witness ==
    /\ lastOp.kind = "subscribe"
    /\ lastOp.arg.items = <<KeyAB>>
    /\ Len(emits) = 1
    /\ emits[1].to # {}
    /\ emits[1].payload = CountPayload(KeyAB, 2)
    /\ Cardinality(Members(rooms[AppA], KeyAB)) = 2

\* the connections of namespace a that are live and have joined key k
Joined(st, ns, sd, a, k) ==
    {c \in Conns : st[c] = "active" /\ ns[c] = a /\ SeqHas(sd[c], k)}

\* C28: after every event, each room's member set is exactly the set of
\* live connections of its namespace that joined its key, and a socket
\* lists each of its rooms once; a subscribe adds the connection to each
\* listed topic, a topic listed twice or joined before gains no second
\* member, and the rooms of the topics not listed keep their members.
C28_Step ==
    /\ \A a \in Apps :
           \A k \in DOMAIN rooms'[a] \cup UNION {Range(sids'[c]) : c \in Conns} :
               Members(rooms'[a], k) = Joined(status', nspOf', sids', a, k)
    /\ \A c \in Conns : Cardinality(Range(sids'[c])) = Len(sids'[c])
    /\ \A c \in Conns :
           (lastOp'.kind = "subscribe" /\ lastOp'.conn = c /\ lastOp'.arg.isArray)
           => \A k \in DOMAIN rooms[nspOf[c]] \cup DOMAIN rooms'[nspOf[c]] :
                  Members(rooms'[nspOf[c]], k) =
                      IF k \in Range(lastOp'.arg.items)
                      THEN Members(rooms[nspOf[c]], k) \cup {c}
                      ELSE Members(rooms[nspOf[c]], k)

C28_MembershipIsASet == [][C28_Step]_vars

\* a connection that had joined a:b and then two other topics subscribed
\* again, listing a:b twice: a:b still has one member while the other
\* topics have two
C28_Witness ==
    /\ lastOp.kind = "subscribe"
    /\ lastOp.arg.items = <<KeyAB, KeyAB>>
    /\ sids[lastOp.conn] =
           <<SocketId(lastOp.conn), KeyAB, KeyPlain, KeyMyCount>>
    /\ Cardinality(Members(rooms[AppA], KeyAB)) = 1
    /\ Cardinality(Members(rooms[AppA], KeyPlain)) = 2
    /\ Cardinality(Members(rooms[AppA], KeyMyCount)) = 2

\* C29 as stated: a socket event delivers a count update about a topic only
\* to connections that have named the topic in a subscribeCount event.
C29_Original ==
    [][lastOp'.kind \in SocketOps
       => \A i \in 1 .. Len(emits') :
              emits'[i].payload.type = "count"
              => \A d \in emits'[i].to :
                     emits'[i].payload.topic \in asked[d] \cup asked'[d]]_vars

\* C29: a count update about topic t is delivered only to the connections
\* that are members of the room "t:count" when it is emitted, whatever way
\* they joined it; a connection outside that room never receives it.
C29_Step ==
    lastOp'.kind \in SocketOps
    => \A i \in 1 .. Len(emits') :
           emits'[i].payload.type = "count"
           => /\ emits'[i].room = CountKey(emits'[i].payload.topic)
              /\ \A d \in emits'[i].to :
                     SeqHas(sids[d], CountKey(emits'[i].payload.topic))

C29_CountUpdatesGoToCountRoomOnly == [][C29_Step]_vars

\* a count update about a:b reached a connection that had asked for it and
\* not the connection whose join of a:b triggered it
C29_Witness ==
    /\ lastOp.kind = "subscribe"
    /\ lastOp.arg.items = <<KeyAB>>
    /\ Len(emits) = 1
    /\ emits[1].payload.type = "count"
    /\ emits[1].to # {}
    /\ \A d \in emits[1].to : KeyAB \in asked[d]
    /\ lastOp.conn \notin emits[1].to

\* C30: every count update is emitted on the room store as it is after the
\* membership change that triggered it: a join update counts the joining
\* connection, and a leave update is resolved against the rooms without the
\* leaving connection, so its recipients are the members the count room has
\* once the connection is removed.
C30_Step ==
    /\ \A c \in Conns :
           (/\ lastOp'.kind = "subscribe"
            /\ lastOp'.conn = c
            /\ lastOp'.arg.isArray)
           => \A i \in 1 .. Len(emits') :
                  /\ c \in Members(rooms'[nspOf[c]], emits'[i].payload.topic)
                  /\ emits'[i].payload.count =
                         Cardinality(Members(rooms[nspOf[c]], emits'[i].payload.topic)
                                         \cup {c})
    /\ lastOp'.kind = "disconnect"
       => \A i \in 1 .. Len(emits') :
              /\ lastOp'.conn \notin emits'[i].to
              /\ emits'[i].to = Members(rooms'[lastOp'.arg.app], emits'[i].room)

C30_CountUpdateAfterCommit == [][C30_Step]_vars

\* the positions of list items whose count room has a member in rooms Map rs
Counted(rs, items) ==
    {i \in 1 .. Len(items) : Members(rs, CountKey(items[i])) # {}}

\* the j-th smallest element of the set of positions S
NthOf(S, j) == CHOOSE i \in S : Cardinality({k \in S : k <= i}) = j

\* the positions of list items that socket.rooms sd does not hold and that
\* are the first occurrence of their key in the list
FirstNew(sd, items) ==
    {i \in 1 .. Len(items) :
         /\ ~SeqHas(sd, items[i])
         /\ \A k \in 1 .. (i - 1) : items[k] # items[i]}

\* C31: one subscribe request joins its topics in list order and emits its
\* count updates in list order: the emits of the request are, one after the
\* other, the update of each listed topic whose count room has a member, and
\* the rooms of the socket grow by the new topics in the order listed;
\* nothing of another request is emitted in between.
C31_Step ==
    (lastOp'.kind = "subscribe" /\ lastOp'.arg.isArray)
    => LET c == lastOp'.conn
           items == lastOp'.arg.items
           S == Counted(rooms'[nspOf[c]], items)
           N == FirstNew(sids[c], items)
       IN  /\ Len(emits') = Cardinality(S)
           /\ \A j \in 1 .. Len(emits') :
                  /\ emits'[j].room = CountKey(items[NthOf(S, j)])
                  /\ emits'[j].payload.topic = items[NthOf(S, j)]
           /\ Len(sids'[c]) = Len(sids[c]) + Cardinality(N)
           /\ \A j \in 1 .. Len(sids[c]) : sids'[c][j] = sids[c][j]
           /\ \A j \in 1 .. Cardinality(N) :
                  sids'[c][Len(sids[c]) + j] = items[NthOf(N, j)]

C31_EmitsInListOrder == [][C31_Step]_vars

\* a subscribe to <<ab, mycount:e>> by a connection in neither room, while
\* both count rooms are watched: two updates, ab first
C31_Witness ==
    /\ lastOp.kind = "subscribe"
    /\ lastOp.arg.items = <<KeyPlain, KeyMyCount>>
    /\ Len(emits) = 2
    /\ emits[1].payload.topic = KeyPlain
    /\ emits[2].payload.topic = KeyMyCount
    /\ sids[lastOp.conn] = <<SocketId(lastOp.conn), KeyPlain, KeyMyCount>>

\* C32: a validated notify request is answered only when the emit to each
\* of its targets, in all three categories, has been attempted and has
\* settled: the service holds one settled result per target, in the order
\* users, devices, eventTopics, a success where the emit went through and a
\* failure where it threw, and the request is then answered 200 - also when
\* the first emit throws and when every emit throws.
C32_ResolvesAfterAllSettled ==
    Notified
    => LET ts == AllTargets(lastOp.arg.req)
       IN  /\ svc # NoSvc
           /\ Len(svc.results) = Len(ts)
           /\ \A j \in 1 .. Len(ts) :
                  /\ svc.results[j].target = ts[j].key
                  /\ svc.results[j].success =
                         (<<ts[j].cat, ts[j].idx>> \notin lastOp.arg.failing)
           /\ response # NoResponse
           /\ response.status = 200
           /\ response.body.success

\* a request with a user, a device and a topic whose three emits all threw:
\* three failures are recorded, nothing was emitted, the answer is 200
C32_Witness ==
    /\ Notified
    /\ Len(AllTargets(lastOp.arg.req)) = 3
    /\ lastOp.arg.failing = TargetPositions(lastOp.arg.req)
    /\ Len(svc.results) = 3
    /\ \A j \in 1 .. 3 : ~svc.results[j].success
    /\ emits = <<>>
    /\ response.status = 200

\* C34: a disconnect emits exactly one leave count update for each room of
\* the connection that is eligible (its key contains ":" and not "count", and
\* is neither an identity of the connection nor its session identifier) and
\* has at least two members, carrying that room's key and its size minus
\* one, and it emits no count update about any other room.
C34_Step ==
    lastOp'.kind = "disconnect"
    => LET c == lastOp'.conn
           a == lastOp'.arg.app
           ids == {handshake[c].clientId, handshake[c].deviceId} \ {NoId}
           eligible == {r \in Range(sids[c]) :
                           /\ r # SocketId(c)
                           /\ r \notin ids
                           /\ Countable(r)
                           /\ Cardinality(Members(rooms[a], r)) >= 2}
       IN  /\ Len(emits') = Cardinality(eligible)
           /\ \A i \in 1 .. Len(emits') :
                  emits'[i].payload.topic \in eligible
           /\ \A t \in eligible :
                  /\ Len(CountEmitsFor(emits', t)) = 1
                  /\ CountEmitsFor(emits', t)[1].payload =
                         CountPayload(t, Cardinality(Members(rooms[a], t)) - 1)

C34_OneLeaveUpdatePerEligibleRoom == [][C34_Step]_vars

\* C35: every count update emitted by a socket event has exactly the fields
\* type = "count", topic and count, its count is an integer >= 1, and its
\* count is the number of members the room of its topic has when the event
\* (the subscribe, or the disconnect) is complete.
C35_Step ==
    lastOp'.kind \in SocketOps
    => \A i \in 1 .. Len(emits') :
           LET p == emits'[i].payload
           IN  /\ DOMAIN p = {"type", "topic", "count"}
               /\ p.type = "count"
               /\ p.count \in Nat
               /\ p.count >= 1
               /\ p.count =
                      Cardinality(Members(rooms'[emits'[i].nsp], p.topic))

C35_CountIsSizeAfterwards == [][C35_Step]_vars

\* one of the two members of a:b has disconnected while the count room was
\* watched: the update carries 1, the size of a:b afterwards
C35_Witness ==
    /\ lastOp.kind = "disconnect"
    /\ Len(emits) = 1
    /\ emits[1].to # {}
    /\ emits[1].payload.topic = KeyAB
    /\ emits[1].payload.count = 1
    /\ Cardinality(Members(rooms[AppA], KeyAB)) = 1

\* the count updates about topic t among the emits es that reach connection w
CountEmitsTo(es, t, w) ==
    LET Reaches(e) == w \in e.to
    IN  SelectSeq(CountEmitsFor(es, t), Reaches)

\* C36: a connection w that sits in the count room of a topic t whose key
\* contains ":" and not "count", and stays connected, always holds the
\* current size of a non-empty topic room t in the last count update it
\* received: every subscribe or disconnect of another connection that
\* changes the size of room t to a non-zero value delivers to w an update
\* about t, and the last update about t that a step delivers to w carries
\* the size room t has after the step.  (At the moment w joins the count
\* room of a still empty topic nothing has to be known; from there on each
\* step keeps what w was last told equal to the size.)
C36_Step ==
    \A w \in Conns :
        LET a == nspOf[w]
        IN  (/\ lastOp'.kind \in {"subscribe", "disconnect"}
             /\ lastOp'.conn # w
             /\ status[w] = "active")
            => \A t \in DOMAIN rooms[a] \cup DOMAIN rooms'[a] :
                   (/\ Countable(t)
                    /\ w \in Members(rooms[a], CountKey(t))
                    /\ Members(rooms'[a], t) # {})
                   => LET ups == CountEmitsTo(emits', t, w)
                          before == Cardinality(Members(rooms[a], t))
                          after == Cardinality(Members(rooms'[a], t))
                      IN  /\ after # before => Len(ups) >= 1
                          /\ Len(ups) >= 1
                             => ups[Len(ups)].payload.count = after

C36_WatcherHoldsCurrentSize == [][C36_Step]_vars

\* a connection that only watches a:b was told 1 when the first of two
\* subscribers of a:b disconnected, and a:b has one member
C36_Witness ==
    /\ lastOp.kind = "disconnect"
    /\ Cardinality(Members(rooms[AppA], KeyAB)) = 1
    /\ Len(emits) = 1
    /\ emits[1].payload = CountPayload(KeyAB, 1)
    /\ \E w \in emits[1].to :
           /\ w \notin Members(rooms[AppA], KeyAB)
           /\ sids[w] = <<SocketId(w), CountKey(KeyAB)>>

\* C37: all emits of one notify request see one membership: the request
\* changes no membership, no socket event takes effect between two of its
\* emits, each emit reaches exactly the members its room has at the moment
\* of the request, and a connection that is not connected at that moment
\* is reached by none of them.
C37_Step ==
    lastOp'.kind = "notify"
    => LET a == lastOp'.arg.req.appId
       IN  /\ UNCHANGED <<status, nspOf, handshake, rooms, sids>>
           /\ \A i \in 1 .. Len(emits') :
                  /\ emits'[i].nsp = a
                  /\ emits'[i].to = Members(rooms[a], emits'[i].room)
                  /\ \A c \in emits'[i].to :
                         status[c] = "active" /\ nspOf[c] = a

DeliveriesTo(es, c) == {i \in 1 .. Len(es) : c \in es[i].to}

\* the positions, in the target list ts, of the room keys that connection c
\* is a member of in rooms Map rs
MemberTargets(rs, ts, c) == {j \in 1 .. Len(ts) : c \in Members(rs, ts[j].key)}

C39_Step ==
    (lastOp'.kind = "subscribe" /\ lastOp'.arg.isArray)
    => LET c == lastOp'.conn
           a == nspOf[c]
           items == lastOp'.arg.items
       IN  \A t \in Range(items) :
               LET ups == CountEmitsFor(emits', t)
               IN  IF Members(rooms'[a], CountKey(t)) # {}
                   THEN /\ Len(ups) = Occurrences(items, t)
                        /\ \A j \in 1 .. Len(ups) :
                               /\ ups[j].room = CountKey(t)
                               /\ ups[j].payload.count =
                                      Cardinality(Members(rooms'[a], t))
                               /\ c \in Members(rooms[a], t)
                                  => ups[j].payload.count =
                                         Cardinality(Members(rooms[a], t))
                   ELSE Len(ups) = 0

C39_OneUpdatePerOccurrence == [][C39_Step]_vars

\* a connection that had joined a:b before subscribed again with a:b listed
\* twice while the count room was watched: two updates, both with the
\* unchanged size 1
C39_Witness ==
    /\ lastOp.kind = "subscribe"
    /\ lastOp.arg.items = <<KeyAB, KeyAB>>
    /\ sids[lastOp.conn] =
           <<SocketId(lastOp.conn), KeyAB, KeyPlain, KeyMyCount>>
    /\ Len(emits) = 2
    /\ emits[1].payload = CountPayload(KeyAB, 1)
    /\ emits[2].payload = CountPayload(KeyAB, 1)
    /\ emits[1].to # {}

====
